---- MODULE Spec2Model ----
(***************************************************************************)
(* Model of network::buffer_queue::BufferQueue (src/src/network/           *)
(* buffer_queue.rs): two descriptor queues over one byte Buffer, plus the  *)
(* stream positions.  A panic (failed assert!, explicit panic!, slice      *)
(* index out of range) stops the object: it is recorded in `panicked` and  *)
(* no further operation runs.                                              *)
(*                                                                         *)
(* network::buffer::Buffer is not part of the sources at hand; it is       *)
(* modelled from its description as a bounded window of available bytes.   *)
(***************************************************************************)
EXTENDS Integers, Sequences, FiniteSets, TLC

\* ---------------------------------------------------------------- bounds
Capacity == 3      \* capacity handed to with_capacity
MaxElem  == 2      \* largest count / payload length passed to one call
MaxQueue == 3      \* callers keep at most this many elements in each queue
MaxStream == 4     \* bytes written, spliced or inserted between two resets

Sizes  == 1..MaxElem               \* counts and payload lengths of one call
ConsumeSizes == 0..(MaxElem + 1)   \* a consumer may ask for more than one element
PosCap == MaxStream + 1            \* positions are explored up to this offset
Min(a, b) == IF a < b THEN a ELSE b
Max(a, b) == IF a > b THEN a ELSE b

\* The code never looks at a byte's value, so a byte is represented by where it
\* comes from: the i-th byte the Buffer accepts is i, and the literal bytes of
\* an Insert payload are -1, -2, ...  Any misplaced, lost or repeated byte then
\* shows in the value.
StreamBytes(from, n) == [i \in 1..n |-> from + i]
Literal(n) == [i \in 1..n |-> 0 - i]
Payloads == {Literal(n) : n \in Sizes}

Drop(s, n) == SubSeq(s, n + 1, Len(s))
Take(s, n) == SubSeq(s, 1, n)

\* ------------------------------------------------- InputElement / OutputElement
Slice(n)   == [type |-> "Slice",  sz |-> n, v |-> << >>]
Splice(n)  == [type |-> "Splice", sz |-> n, v |-> << >>]
Delete(n)  == [type |-> "Delete", sz |-> n, v |-> << >>]
Insert(p)  == [type |-> "Insert", sz |-> 0, v |-> p]

\* ------------------------------------------------------------------ Buffer
\* available_data(): number of bytes in the window
BufferAvailableData(buf) == Len(buf)
\* consume(n): discards the first n bytes of the window (at most all of them)
BufferConsume(buf, n) == Drop(buf, Min(n, Len(buf)))
\* write(bytes): number of bytes the store accepts
BufferAccepts(buf, b) == Min(Len(b), Capacity - Len(buf))
BufferWrite(buf, b) == buf \o Take(b, BufferAccepts(buf, b))
BufferReset == << >>

\* &s[a..b] in Rust: panics unless a <= b <= s.len()
RustSlice(s, a, b) ==
  IF a <= b /\ b <= Len(s)
  THEN [ok |-> TRUE,  bytes |-> SubSeq(s, a + 1, b)]
  ELSE [ok |-> FALSE, bytes |-> << >>]

VARIABLES
  buffer_position, parsed_position, output_position, start_parsing_position,
  buffer, input_queue, output_queue,
  panicked,     \* "none", or the panic that stopped the object
  op,           \* last operation: [name, size]
  prev,         \* the fields as they were before the last operation
  written,
       \* number of bytes the Buffer accepted since construction / reset
  pending,      \* stored bytes retired from the input queue and not yet
                \* described by an output Slice / Delete
  pending_splice, \* spliced bytes retired from the input queue and not yet
                \* described by an output Splice
  offered,      \* number of bytes handed to the writes the Buffer took
  inflow,       \* bytes handed to write / spliced_input / insert_output since reset
  untouched,    \* no consume_* and no spliced_input since construction / reset
  sent, expected  \* sender loop: bytes transmitted, and the edited stream

vars == << buffer_position, parsed_position, output_position,
           start_parsing_position, buffer, input_queue, output_queue,
           panicked, op, prev, written, offered, pending, pending_splice,
           inflow,
           untouched, sent, expected >>

Fields == [bp |-> buffer_position, pp |-> parsed_position,
           op |-> output_position, sp |-> start_parsing_position,
           buf |-> buffer, iq |-> input_queue, oq |-> output_queue]

\* --------------------------------------------------------------- queries
RECURSIVE SumSz(_)
SumSz(q) == IF q = << >> THEN 0 ELSE Head(q).sz + SumSz(Tail(q))

available_input_data(iq) == SumSz(iq)

RECURSIVE LeadingRun(_, _)
\* sum of sz over the leading elements of type t, stopping at the first other
LeadingRun(q, t) ==
  IF q = << >> \/ Head(q).type # t THEN 0
  ELSE Head(q).sz + LeadingRun(Tail(q), t)

MergeChecked(acc, buf) ==
  [ok |-> acc <= BufferAvailableData(buf), val |-> acc]

merge_input_slices(iq, buf)   == MergeChecked(LeadingRun(iq, "Slice"), buf)
merge_output_slices(oq, buf)  == MergeChecked(LeadingRun(oq, "Slice"), buf)
merge_output_deletes(oq, buf) == MergeChecked(LeadingRun(oq, "Delete"), buf)

RECURSIVE input_data_sizeSlicesOnly(_)
\* variant: the Splice arm adds nothing
input_data_sizeSlicesOnly(iq) ==
  IF iq = << >> THEN 0
  ELSE (IF Head(iq).type = "Slice" THEN Head(iq).sz ELSE 0)
       + input_data_sizeSlicesOnly(Tail(iq))

RECURSIVE input_data_size(_)
input_data_size(iq) ==
  IF iq = << >> THEN 0 ELSE Head(iq).sz + input_data_size(Tail(iq))

unparsed_data(iq, buf, pp) ==
  LET m == merge_input_slices(iq, buf) IN
  IF ~m.ok THEN [ok |-> FALSE, bytes |-> << >>]
  ELSE IF m.val = 0 THEN RustSlice(buf, 0, 0)
  ELSE RustSlice(buf, pp, Max(Len(buf), pp + m.val))

RECURSIVE output_data_sizeCountsDeletes(_)
\* variant: the Delete arm adds its length like the other arms
output_data_sizeCountsDeletes(oq) ==
  IF oq = << >> THEN 0
  ELSE (IF Head(oq).type = "Insert" THEN Len(Head(oq).v) ELSE Head(oq).sz)
       + output_data_sizeCountsDeletes(Tail(oq))

RECURSIVE output_data_size(_)
output_data_size(oq) ==
  IF oq = << >> THEN 0
  ELSE (CASE Head(oq).type = "Splice" -> Head(oq).sz
          [] Head(oq).type = "Slice"  -> Head(oq).sz
          [] Head(oq).type = "Insert" -> Len(Head(oq).v)
          [] Head(oq).type = "Delete" -> 0)
       + output_data_size(Tail(oq))

RECURSIVE NextOutputWalk(_, _, _, _)
\* the for loop of next_output_data; yields the Insert payload returned from
\* inside the loop, or the (start, largest_size) pair the loop ends with
NextOutputWalk(q, start, largest_size, delete_ended) ==
  IF q = << >> THEN [insert |-> FALSE, v |-> << >>, start |-> start, len |-> largest_size]
  ELSE LET el == Head(q) IN
    IF ~delete_ended THEN
      IF el.type = "Delete" THEN NextOutputWalk(Tail(q), start + el.sz, largest_size, FALSE)
      ELSE IF el.type = "Slice" THEN NextOutputWalk(Tail(q), start, largest_size + el.sz, TRUE)
      ELSE IF el.type = "Insert" THEN [insert |-> TRUE, v |-> el.v, start |-> start, len |-> largest_size]
      ELSE [insert |-> FALSE, v |-> << >>, start |-> start, len |-> largest_size]
    ELSE
      IF el.type = "Slice" THEN NextOutputWalk(Tail(q), start, largest_size + el.sz, TRUE)
      ELSE [insert |-> FALSE, v |-> << >>, start |-> start, len |-> largest_size]

\* variant: the leading Delete run is not skipped, &data[0..largest_size]
next_output_dataNoOffset(oq, buf) ==
  LET w == NextOutputWalk(oq, 0, 0, FALSE) IN
  IF w.insert THEN [ok |-> TRUE, bytes |-> w.v]
  ELSE RustSlice(buf, 0, w.len)

next_output_data(oq, buf) ==
  LET w == NextOutputWalk(oq, 0, 0, FALSE) IN
  IF w.insert THEN [ok |-> TRUE, bytes |-> w.v]
  ELSE RustSlice(buf, w.start, w.start + w.len)

\* ------------------------------------------------------- consume loops
\* One arm of the match in consume_parsed_data.  `keep` is new_first_element
\* (<< >> for None, << el >> for Some(el)); `left` is to_consume afterwards.
\* variant: the remainder of a partly parsed Slice keeps its old length
ParsedSliceArmKeepsLength(sz, to_consume) ==
  IF to_consume >= sz
  THEN [keep |-> << >>, left |-> to_consume - sz, panic |-> "none"]
  ELSE [keep |-> << Slice(sz) >>, left |-> 0, panic |-> "none"]

ParsedSliceArm(sz, to_consume) ==
  IF to_consume >= sz
  THEN [keep |-> << >>, left |-> to_consume - sz, panic |-> "none"]
  ELSE [keep |-> << Slice(sz - to_consume) >>, left |-> 0, panic |-> "none"]

\* variant: a Splice is shrunk like a Slice instead of panicking
ParsedSpliceArmShrinks(sz, to_consume) ==
  IF to_consume >= sz
  THEN [keep |-> << >>, left |-> to_consume - sz, panic |-> "none"]
  ELSE [keep |-> << Splice(sz - to_consume) >>, left |-> 0, panic |-> "none"]

ParsedSpliceArm(sz, to_consume) ==
  IF to_consume >= sz
  THEN [keep |-> << >>, left |-> to_consume - sz, panic |-> "none"]
  ELSE [keep |-> << Splice(sz) >>, left |-> to_consume, panic |-> "splice"]

RECURSIVE ConsumeParsedLoopAsserts(_, _)
\* variant: the assert! of the None arm (line 123) is in force
ConsumeParsedLoopAsserts(iq, to_consume) ==
  IF to_consume = 0
  THEN [iq |-> iq, to_consume |-> to_consume, panic |-> "none"]
  ELSE IF iq = << >>
  THEN [iq |-> iq, to_consume |-> to_consume, panic |-> "no_more_element"]
  ELSE LET arm == IF Head(iq).type = "Slice"
                  THEN ParsedSliceArm(Head(iq).sz, to_consume)
                  ELSE ParsedSpliceArm(Head(iq).sz, to_consume)
       IN IF arm.panic # "none"
          THEN [iq |-> iq, to_consume |-> to_consume, panic |-> arm.panic]
          ELSE ConsumeParsedLoopAsserts(arm.keep \o Tail(iq), arm.left)

RECURSIVE ConsumeParsedLoop(_, _)
\* the while loop of consume_parsed_data: the queue and budget it ends with
ConsumeParsedLoop(iq, to_consume) ==
  IF to_consume = 0 \/ iq = << >>
  THEN [iq |-> iq, to_consume |-> to_consume, panic |-> "none"]
  ELSE LET arm == IF Head(iq).type = "Slice"
                  THEN ParsedSliceArm(Head(iq).sz, to_consume)
                  ELSE ParsedSpliceArm(Head(iq).sz, to_consume)
       IN IF arm.panic # "none"
          THEN [iq |-> iq, to_consume |-> to_consume, panic |-> arm.panic]
          ELSE ConsumeParsedLoop(arm.keep \o Tail(iq), arm.left)

\* One arm of the match in consume_output_data.  `phys` is the amount added to
\* buffer_position and handed to Buffer::consume.
OutputSliceArm(sz, to_consume) ==
  IF to_consume >= sz
  THEN [keep |-> << >>, left |-> to_consume - sz, phys |-> to_consume]
  ELSE [keep |-> << Slice(sz - to_consume) >>, left |-> 0, phys |-> to_consume]

\* variant: a Delete is paid from the budget like a Slice
OutputDeleteArmDecrements(sz, to_consume) ==
  IF to_consume >= sz
  THEN [keep |-> << >>, left |-> to_consume - sz, phys |-> sz]
  ELSE [keep |-> << Delete(sz - to_consume) >>, left |-> 0, phys |-> to_consume]

OutputDeleteArm(sz, to_consume) ==
  [keep |-> << >>, left |-> to_consume, phys |-> sz]

OutputSpliceArm(sz, to_consume) ==
  IF to_consume >= sz
  THEN [keep |-> << >>, left |-> to_consume - sz, phys |-> 0]
  ELSE [keep |-> << Splice(sz - to_consume) >>, left |-> 0, phys |-> 0]

\* variant: the part of the payload already sent is kept, &v[..to_consume]
OutputInsertArmKeepsPrefix(v, to_consume) ==
  IF to_consume >= Len(v)
  THEN [keep |-> << >>, left |-> to_consume - Len(v), phys |-> 0]
  ELSE [keep |-> << Insert(Take(v, to_consume)) >>, left |-> 0, phys |-> 0]

OutputInsertArm(v, to_consume) ==
  IF to_consume >= Len(v)
  THEN [keep |-> << >>, left |-> to_consume - Len(v), phys |-> 0]
  ELSE [keep |-> << Insert(Drop(v, to_consume)) >>, left |-> 0, phys |-> 0]

RECURSIVE ConsumeOutputLoopClamps(_, _, _, _)
\* variant: the None arm breaks without asserting, as in consume_parsed_data
ConsumeOutputLoopClamps(oq, bp, buf, to_consume) ==
  IF to_consume = 0 \/ oq = << >>
  THEN [oq |-> oq, bp |-> bp, buf |-> buf, panic |-> "none"]
  ELSE LET el  == Head(oq)
           arm == CASE el.type = "Slice"  -> OutputSliceArm(el.sz, to_consume)
                    [] el.type = "Delete" -> OutputDeleteArm(el.sz, to_consume)
                    [] el.type = "Splice" -> OutputSpliceArm(el.sz, to_consume)
                    [] el.type = "Insert" -> OutputInsertArm(el.v, to_consume)
       IN ConsumeOutputLoopClamps(arm.keep \o Tail(oq), bp + arm.phys,
                                  BufferConsume(buf, arm.phys), arm.left)

RECURSIVE ConsumeOutputLoop(_, _, _, _)
\* the while loop of consume_output_data
ConsumeOutputLoop(oq, bp, buf, to_consume) ==
  IF to_consume = 0 THEN [oq |-> oq, bp |-> bp, buf |-> buf, panic |-> "none"]
  ELSE IF oq = << >>
  THEN [oq |-> oq, bp |-> bp, buf |-> buf, panic |-> "no_more_element"]
  ELSE LET el  == Head(oq)
           arm == CASE el.type = "Slice"  -> OutputSliceArm(el.sz, to_consume)
                    [] el.type = "Delete" -> OutputDeleteArm(el.sz, to_consume)
                    [] el.type = "Splice" -> OutputSpliceArm(el.sz, to_consume)
                    [] el.type = "Insert" -> OutputInsertArm(el.v, to_consume)
       IN ConsumeOutputLoop(arm.keep \o Tail(oq), bp + arm.phys,
                            BufferConsume(buf, arm.phys), arm.left)

\* stored (Slice) bytes among the elements of a queue
RECURSIVE SliceBytes(_)
SliceBytes(q) ==
  IF q = << >> THEN 0
  ELSE (IF Head(q).type = "Slice" THEN Head(q).sz ELSE 0) + SliceBytes(Tail(q))

\* spliced bytes among the elements of an input queue
SpliceBytes(q) == SumSz(q) - SliceBytes(q)

\* ------------------------------------------------------------------ Init
with_capacity ==
  [bp |-> 0, pp |-> 0, op |-> 0, sp |-> 0,
   buf |-> BufferReset, iq |-> << >>, oq |-> << >>]

Init ==
  /\ buffer_position = with_capacity.bp
  /\ parsed_position = with_capacity.pp
  /\ output_position = with_capacity.op
  /\ start_parsing_position = with_capacity.sp
  /\ buffer = with_capacity.buf
  /\ input_queue = with_capacity.iq
  /\ output_queue = with_capacity.oq
  /\ panicked = "none"
  /\ op = [name |-> "with_capacity", size |-> Capacity]
  /\ prev = with_capacity
  /\ written = 0
  /\ offered = 0
  /\ pending = 0
  /\ pending_splice = 0
  /\ inflow = 0
  /\ untouched = TRUE
  /\ sent = << >>
  /\ expected = << >>

Step(name, size) ==
  /\ panicked = "none"
  /\ op' = [name |-> name, size |-> size]
  /\ prev' = Fields
  /\ UNCHANGED << sent, expected >>

\* --------------------------------------------------------------- actions
\* variant: the queued Slice gets the length of the caller's bytes, not the
\* count the Buffer took
WriteQueuesOffered(b) ==
  /\ Step("write", Len(b))
  /\ Len(input_queue) < MaxQueue
  /\ inflow + Len(b) <= MaxStream
  /\ Len(b) = 0 \/ Len(buffer) < Capacity
  /\ buffer' = BufferWrite(buffer, b)
  /\ input_queue' = Append(input_queue, Slice(Len(b)))
  /\ written' = written + BufferAccepts(buffer, b)
  /\ offered' = offered + Len(b)
  /\ inflow' = inflow + Len(b)
  /\ UNCHANGED << buffer_position, parsed_position, output_position,
                  start_parsing_position, output_queue, panicked,
                  pending, pending_splice, untouched >>

\* variant: the queued Slice gets the Buffer's available data, not the count
\* this write added
WriteQueuesAvailable(b) ==
  /\ Step("write", Len(b))
  /\ Len(input_queue) < MaxQueue
  /\ inflow + Len(b) <= MaxStream
  /\ Len(b) = 0 \/ Len(buffer) < Capacity
  /\ buffer' = BufferWrite(buffer, b)
  /\ input_queue' = Append(input_queue, Slice(Len(BufferWrite(buffer, b))))
  /\ written' = written + BufferAccepts(buffer, b)
  /\ offered' = offered + Len(b)
  /\ inflow' = inflow + Len(b)
  /\ UNCHANGED << buffer_position, parsed_position, output_position,
                  start_parsing_position, output_queue, panicked,
                  pending, pending_splice, untouched >>

\* impl Write: Ok(sz), the Buffer took the first sz bytes
Write(b) ==
  /\ Step("write", Len(b))
  /\ Len(input_queue) < MaxQueue
  /\ inflow + Len(b) <= MaxStream
  /\ Len(b) = 0 \/ Len(buffer) < Capacity
  /\ buffer' = BufferWrite(buffer, b)
  /\ input_queue' = Append(input_queue, Slice(BufferAccepts(buffer, b)))
  /\ written' = written + BufferAccepts(buffer, b)
  /\ offered' = offered + Len(b)
  /\ inflow' = inflow + Len(b)
  /\ UNCHANGED << buffer_position, parsed_position, output_position,
                  start_parsing_position, output_queue, panicked,
                  pending, pending_splice, untouched >>

\* variant: the Err arm queues an empty Slice before it returns the error
WriteErrQueuesSlice(b) ==
  /\ Step("write_err", Len(b))
  /\ Len(b) > Capacity - Len(buffer)
  /\ Len(input_queue) < MaxQueue
  /\ input_queue' = Append(input_queue, Slice(0))
  /\ UNCHANGED << buffer_position, parsed_position, output_position,
                  start_parsing_position, buffer, output_queue,
                  panicked, written, offered, pending, pending_splice,
                  inflow, untouched >>

\* impl Write: Err(e), the Buffer refused the bytes
WriteErr(b) ==
  /\ Step("write_err", Len(b))
  /\ Len(b) > Capacity - Len(buffer)
  /\ UNCHANGED << buffer_position, parsed_position, output_position,
                  start_parsing_position, buffer, input_queue, output_queue,
                  panicked, written, offered, pending, pending_splice,
                  inflow, untouched >>

\* the caller hands over the next n bytes of the inbound stream
write(n)     == Write(StreamBytes(written, n))
write_err(n) == WriteErr(StreamBytes(written, n))

spliced_input(count) ==
  /\ Step("spliced_input", count)
  /\ Len(input_queue) < MaxQueue
  /\ inflow + count <= MaxStream
  /\ input_queue' = Append(input_queue, Splice(count))
  /\ inflow' = inflow + count
  /\ untouched' = FALSE
  /\ UNCHANGED << buffer_position, parsed_position, output_position,
                  start_parsing_position, buffer, output_queue, panicked,
                  written, offered, pending, pending_splice >>

\* variant: start_parsing_position advances by the retired count, like
\* parsed_position
consume_parsed_dataStartRetired(size) ==
  LET r == ConsumeParsedLoop(input_queue, size) IN
  /\ Step("consume_parsed_data", size)
  /\ start_parsing_position + size <= PosCap
  /\ input_queue' = r.iq
  /\ panicked' = r.panic
  /\ IF r.panic = "none"
     THEN /\ parsed_position' = parsed_position + (size - r.to_consume)
          /\ start_parsing_position' = start_parsing_position + (size - r.to_consume)
     ELSE UNCHANGED << parsed_position, start_parsing_position >>
  /\ pending' = pending + (SliceBytes(input_queue) - SliceBytes(r.iq))
  /\ pending_splice' = pending_splice + (SpliceBytes(input_queue) - SpliceBytes(r.iq))
  /\ untouched' = FALSE
  /\ UNCHANGED << buffer_position, output_position, buffer, output_queue,
                  written, offered, inflow >>

\* variant: parsed_position is assigned the retired count instead of advanced
consume_parsed_dataAssigns(size) ==
  LET r == ConsumeParsedLoop(input_queue, size) IN
  /\ Step("consume_parsed_data", size)
  /\ start_parsing_position + size <= PosCap
  /\ input_queue' = r.iq
  /\ panicked' = r.panic
  /\ IF r.panic = "none"
     THEN /\ parsed_position' = size - r.to_consume
          /\ start_parsing_position' = start_parsing_position + size
     ELSE UNCHANGED << parsed_position, start_parsing_position >>
  /\ pending' = pending + (SliceBytes(input_queue) - SliceBytes(r.iq))
  /\ pending_splice' = pending_splice + (SpliceBytes(input_queue) - SpliceBytes(r.iq))
  /\ untouched' = FALSE
  /\ UNCHANGED << buffer_position, output_position, buffer, output_queue,
                  written, offered, inflow >>

consume_parsed_data(size) ==
  LET r == ConsumeParsedLoop(input_queue, size) IN
  /\ Step("consume_parsed_data", size)
  /\ start_parsing_position + size <= PosCap
  /\ input_queue' = r.iq
  /\ panicked' = r.panic
  /\ IF r.panic = "none"
     THEN /\ parsed_position' = parsed_position + (size - r.to_consume)
          /\ start_parsing_position' = start_parsing_position + size
     ELSE UNCHANGED << parsed_position, start_parsing_position >>
  /\ pending' = pending + (SliceBytes(input_queue) - SliceBytes(r.iq))
  /\ pending_splice' = pending_splice + (SpliceBytes(input_queue) - SpliceBytes(r.iq))
  /\ untouched' = FALSE
  /\ UNCHANGED << buffer_position, output_position, buffer, output_queue,
                  written, offered, inflow >>

\* Vec::push on the output queue.  The rewriting layer describes bytes it has
\* retired from the input: `stored` Buffer bytes (Slice, Delete) or `spl`
\* spliced bytes (Splice); `lit` is the length of an Insert's literal payload.
Emit(name, size, el, stored, spl, lit) ==
  /\ Step(name, size)
  /\ Len(output_queue) < MaxQueue
  /\ stored <= pending
  /\ output_queue' = Append(output_queue, el)
  /\ pending' = pending - stored
  /\ spl <= pending_splice
  /\ inflow + lit <= MaxStream
  /\ inflow' = inflow + lit
  /\ pending_splice' = pending_splice - spl
  /\ UNCHANGED << buffer_position, parsed_position, output_position,
                  start_parsing_position, buffer, input_queue, panicked,
                  written, offered, untouched >>

slice_output(count)  == Emit("slice_output", count, Slice(count), count, 0, 0)
delete_output(count) == Emit("delete_output", count, Delete(count), count, 0, 0)
splice_output(count) == Emit("splice_output", count, Splice(count), 0, count, 0)
insert_output(v)     == Emit("insert_output", Len(v), Insert(v), 0, 0, Len(v))

consume_output_data(size) ==
  LET r == ConsumeOutputLoop(output_queue, buffer_position, buffer, size) IN
  /\ Step("consume_output_data", size)
  /\ r.bp <= PosCap
  /\ output_queue' = r.oq
  /\ buffer_position' = r.bp
  /\ buffer' = r.buf
  /\ panicked' = r.panic
  /\ untouched' = FALSE
  /\ UNCHANGED << parsed_position, output_position, start_parsing_position,
                  input_queue, written, offered, pending, pending_splice,
                  inflow >>

\* variant: start_parsing_position is left out of the reset
resetKeepsStart ==
  /\ Step("reset", 0)
  /\ parsed_position' = 0
  /\ output_position' = 0
  /\ buffer_position' = 0
  /\ buffer' = BufferReset
  /\ input_queue' = << >>
  /\ output_queue' = << >>
  /\ written' = 0
  /\ offered' = 0
  /\ pending' = 0
  /\ pending_splice' = 0
  /\ inflow' = 0
  /\ untouched' = TRUE
  /\ UNCHANGED << panicked, start_parsing_position >>

reset ==
  /\ Step("reset", 0)
  /\ parsed_position' = 0
  /\ output_position' = 0
  /\ buffer_position' = 0
  /\ start_parsing_position' = 0
  /\ buffer' = BufferReset
  /\ input_queue' = << >>
  /\ output_queue' = << >>
  /\ written' = 0
  /\ offered' = 0
  /\ pending' = 0
  /\ pending_splice' = 0
  /\ inflow' = 0
  /\ untouched' = TRUE
  /\ UNCHANGED panicked

Next ==
  \/ \E n \in Sizes : write(n)
  \/ \E n \in Sizes : write_err(n)
  \/ \E n \in Sizes : spliced_input(n)
  \/ \E n \in ConsumeSizes : consume_parsed_data(n)
  \/ \E n \in Sizes : slice_output(n)
  \/ \E n \in Sizes : delete_output(n)
  \/ \E n \in Sizes : splice_output(n)
  \/ \E v \in Payloads : insert_output(v)
  \/ \E n \in ConsumeSizes : consume_output_data(n)
  \/ reset

Spec == Init /\ [][Next]_vars

\* ------------------------------------------------------- the sender loop
\* The I/O layer draining the output queue: take next_output_data(), write a
\* non-empty prefix of it to the socket, report the count to
\* consume_output_data(), until output_data_size() is 0.

\* the edited stream an output queue describes over the stored bytes
RECURSIVE Edited(_, _)
Edited(oq, buf) ==
  IF oq = << >> THEN << >>
  ELSE LET el == Head(oq) IN
    CASE el.type = "Slice"  -> Take(buf, el.sz) \o Edited(Tail(oq), Drop(buf, el.sz))
      [] el.type = "Delete" -> Edited(Tail(oq), Drop(buf, el.sz))
      [] el.type = "Insert" -> el.v \o Edited(Tail(oq), buf)
      [] el.type = "Splice" -> Edited(Tail(oq), buf)

StoredElems == {Slice(n) : n \in Sizes} \cup {Delete(n) : n \in Sizes}
SendElems == StoredElems \cup {Insert(v) : v \in Payloads}

RECURSIVE QueuesUpTo(_, _)
QueuesUpTo(E, n) ==
  IF n = 0 THEN {<< >>}
  ELSE LET shorter == QueuesUpTo(E, n - 1)
       IN  shorter \cup {Append(q, e) : q \in {t \in shorter : Len(t) = n - 1}, e \in E}

RECURSIVE StoredBytes(_)
\* Buffer bytes an output queue stands for: its Slice and Delete lengths
StoredBytes(oq) ==
  IF oq = << >> THEN 0
  ELSE (IF Head(oq).type \in {"Slice", "Delete"} THEN Head(oq).sz ELSE 0)
       + StoredBytes(Tail(oq))

\* The sender starts after n bytes were written and parsed, and the rewriting
\* layer queued Slice / Delete / Insert elements over them.
SendInit ==
  \E n \in 0..Capacity :
  \E q \in {t \in QueuesUpTo(SendElems, MaxQueue) : StoredBytes(t) <= n} :
    /\ buffer_position = 0
    /\ parsed_position = n
    /\ output_position = 0
    /\ start_parsing_position = n
    /\ buffer = StreamBytes(0, n)
    /\ input_queue = << >>
    /\ output_queue = q
    /\ panicked = "none"
    /\ op = [name |-> "start", size |-> 0]
    /\ prev = [bp |-> 0, pp |-> n, op |-> 0, sp |-> n,
               buf |-> StreamBytes(0, n), iq |-> << >>, oq |-> q]
    /\ written = n
    /\ offered = n
    /\ pending = n - StoredBytes(q)
    /\ pending_splice = 0
    /\ inflow = n
    /\ untouched = FALSE
    /\ sent = << >>
    /\ expected = Edited(q, StreamBytes(0, n))

\* one round of the loop: the socket takes k bytes of the chunk
SendChunk(k) ==
  LET c == next_output_data(output_queue, buffer)
      r == ConsumeOutputLoop(output_queue, buffer_position, buffer, k)
  IN
  /\ panicked = "none"
  /\ output_data_size(output_queue) > 0
  /\ c.ok
  /\ k <= Len(c.bytes)
  /\ sent' = sent \o Take(c.bytes, k)
  /\ op' = [name |-> "consume_output_data", size |-> k]
  /\ prev' = Fields
  /\ output_queue' = r.oq
  /\ buffer_position' = r.bp
  /\ buffer' = r.buf
  /\ panicked' = r.panic
  /\ UNCHANGED << parsed_position, output_position, start_parsing_position,
                  input_queue, written, offered, pending, pending_splice,
                  inflow, untouched, expected >>

\* next_output_data() indexes past the end of the Buffer's data
SendChunkPanics ==
  /\ panicked = "none"
  /\ output_data_size(output_queue) > 0
  /\ ~next_output_data(output_queue, buffer).ok
  /\ op' = [name |-> "next_output_data", size |-> 0]
  /\ prev' = Fields
  /\ panicked' = "slice_index"
  /\ UNCHANGED << buffer_position, parsed_position, output_position,
                  start_parsing_position, buffer, input_queue, output_queue,
                  written, offered, pending, pending_splice, inflow,
                  untouched, sent, expected >>

SendNext ==
  \/ \E k \in 1..Max(Capacity, MaxElem) : SendChunk(k)
  \/ SendChunkPanics

SendSpec == SendInit /\ [][SendNext]_vars

\* ------------------------------------------------------------------ claims

\* C1: a sender that repeatedly takes next_output_data(), transmits a
\* non-empty prefix of it and reports the count to consume_output_data() never
\* fails, and when output_data_size() is 0 it has transmitted exactly the
\* edited stream (stored bytes in order, Delete ranges skipped, Insert
\* payloads in place).
C1_EndToEndDelivery ==
  /\ panicked = "none"
  /\ output_data_size(output_queue) = 0 => sent = expected

\* C2: while the caller respects the usage contract, the leading Slice run of
\* the input queue and the leading Slice and Delete runs of the output queue
\* each fit in the Buffer's available data (no merge assertion can fail).
C2_BufferConsistency ==
  panicked = "none" =>
    /\ merge_input_slices(input_queue, buffer).ok
    /\ merge_output_slices(output_queue, buffer).ok
    /\ merge_output_deletes(output_queue, buffer).ok

\* the stored bytes of the leading Slice run of the input queue: every byte
\* the Buffer accepted sits in an input Slice until it is parsed
UnparsedRun(iq) ==
  StreamBytes(written - SliceBytes(iq), LeadingRun(iq, "Slice"))

\* C3: in every reachable state unparsed_data() returns, without failing,
\* exactly the bytes of the leading Slice run of the input queue.
C3_UnparsedView ==
  panicked = "none" =>
    unparsed_data(input_queue, buffer, parsed_position)
      = [ok |-> TRUE, bytes |-> UnparsedRun(input_queue)]

\* the lengths of the Splice elements of an input queue, in order
RECURSIVE SpliceSizes(_)
SpliceSizes(q) ==
  IF q = << >> THEN << >>
  ELSE (IF Head(q).type = "Splice" THEN << Head(q).sz >> ELSE << >>)
       \o SpliceSizes(Tail(q))

IsSuffix(s, t) == Len(s) <= Len(t) /\ s = Drop(t, Len(t) - Len(s))

\* a budget of n ends strictly inside a Splice element of q
EndsInsideSplice(q, n) ==
  \E i \in 1..Len(q) :
    /\ q[i].type = "Splice"
    /\ SumSz(Take(q, i - 1)) < n
    /\ n < SumSz(Take(q, i))

\* C4: a Splice element of the input queue always has the full length given
\* to spliced_input (Splice elements are only removed whole, from the front),
\* and a consume_parsed_data whose budget ends strictly inside a Splice
\* panics.
C4_SpliceAtomicity ==
  /\ IsSuffix(SpliceSizes(input_queue),
              SpliceSizes(prev.iq)
                \o (IF op.name = "spliced_input" THEN << op.size >> ELSE << >>))
  /\ (op.name = "consume_parsed_data" /\ EndsInsideSplice(prev.iq, op.size))
       => panicked = "splice"

\* a budget ended inside the Splice that follows a Slice: the call panicked
\* and the Splice is still whole
C4_Witness ==
  /\ op.name = "consume_parsed_data"
  /\ panicked = "splice"
  /\ Len(prev.iq) = 2
  /\ prev.iq[1].type = "Slice"
  /\ prev.iq[2] = Splice(MaxElem)
  /\ input_queue = << Splice(MaxElem) >>

\* C5: after writes the Buffer accepted in full, with no consume_* call and
\* no spliced_input since construction or reset, unparsed_data() is the
\* concatenation of the written bytes.
C5_RoundTrip ==
  (untouched /\ panicked = "none" /\ written = offered) =>
    unparsed_data(input_queue, buffer, parsed_position)
      = [ok |-> TRUE, bytes |-> StreamBytes(0, offered)]

\* two writes, both accepted in full, that fill the Buffer
C5_Witness ==
  /\ untouched
  /\ op.name = "write"
  /\ written = offered
  /\ Len(input_queue) = 2
  /\ unparsed_data(input_queue, buffer, parsed_position).bytes
       = StreamBytes(0, Capacity)

\* C6: consume_parsed_data(n) with n <= input_data_size() that does not end
\* strictly inside a Splice lowers input_data_size() by exactly n; what is
\* left of the queue is a suffix of the old queue whose first element, if it
\* was a Slice, may have been shortened.
C6_Conservation ==
  (/\ op.name = "consume_parsed_data"
   /\ op.size <= input_data_size(prev.iq)
   /\ ~EndsInsideSplice(prev.iq, op.size)) =>
    /\ panicked = "none"
    /\ input_data_size(input_queue) = input_data_size(prev.iq) - op.size
    /\ \E j \in 0..Len(prev.iq) :
         LET rest == Drop(prev.iq, j) IN
         \/ input_queue = rest
         \/ /\ rest # << >>
            /\ Head(rest).type = "Slice"
            /\ \E r \in 1..(Head(rest).sz - 1) :
                 input_queue = << Slice(Head(rest).sz - r) >> \o Tail(rest)

\* one Slice was removed, the next one shortened, the Splice behind it kept
C6_Witness ==
  /\ op.name = "consume_parsed_data"
  /\ panicked = "none"
  /\ prev.iq = << Slice(1), Slice(MaxElem), Splice(1) >>
  /\ input_queue = << Slice(MaxElem - 1), Splice(1) >>

\* the output queue without its leading Delete run
RECURSIVE AfterDeletes(_)
AfterDeletes(oq) ==
  IF oq # << >> /\ Head(oq).type = "Delete" THEN AfterDeletes(Tail(oq)) ELSE oq

\* C7: when the output queue starts with Delete elements totalling d followed
\* by a run of Slice elements totalling s, and d + s bytes are available in
\* the Buffer, next_output_data() is the s bytes at offsets [d, d + s) of the
\* Buffer's data.
C7_DeleteThenSlice ==
  LET d    == LeadingRun(output_queue, "Delete")
      rest == AfterDeletes(output_queue)
      s    == LeadingRun(rest, "Slice")
  IN (/\ panicked = "none"
      /\ rest # << >>
      /\ Head(rest).type = "Slice"
      /\ d + s <= BufferAvailableData(buffer)) =>
       next_output_data(output_queue, buffer)
         = [ok |-> TRUE, bytes |-> SubSeq(buffer, d + 1, d + s)]

\* a Delete at the head, then a Slice, then an Insert, over enough stored bytes
C7_Witness ==
  /\ panicked = "none"
  /\ Len(output_queue) = 3
  /\ output_queue[1].type = "Delete"
  /\ output_queue[2].type = "Slice"
  /\ output_queue[3].type = "Insert"
  /\ output_queue[1].sz + output_queue[2].sz <= Len(buffer)
  /\ Len(next_output_data(output_queue, buffer).bytes) = output_queue[2].sz

\* C8: with Insert(v) at the head of the output queue and 0 < k < len(v),
\* consume_output_data(k) replaces the head by Insert(v[k..]) and changes
\* nothing else; next_output_data() then returns v[k..].
C8_InsertSuffix ==
  (/\ op.name = "consume_output_data"
   /\ prev.oq # << >>
   /\ Head(prev.oq).type = "Insert"
   /\ 0 < op.size
   /\ op.size < Len(Head(prev.oq).v)) =>
    LET rest == Drop(Head(prev.oq).v, op.size) IN
    /\ panicked = "none"
    /\ output_queue = << Insert(rest) >> \o Tail(prev.oq)
    /\ buffer_position = prev.bp
    /\ buffer = prev.buf
    /\ next_output_data(output_queue, buffer) = [ok |-> TRUE, bytes |-> rest]

\* a payload of two bytes, one of them sent, another element behind it
C8_Witness ==
  /\ op.name = "consume_output_data"
  /\ op.size = 1
  /\ Len(prev.oq) = 2
  /\ Head(prev.oq) = Insert(Literal(MaxElem))
  /\ Len(output_queue) = 2
  /\ Head(output_queue).type = "Insert"

\* C9: reset() leaves every field as with_capacity() creates it.
C9_ResetEquivalence ==
  op.name = "reset" => Fields = with_capacity

\* a reset of an object whose queues, Buffer and positions were all in use
C9_Witness ==
  /\ op.name = "reset"
  /\ prev.iq # << >>
  /\ prev.oq # << >>
  /\ prev.buf # << >>
  /\ prev.bp > 0
  /\ prev.pp > 0
  /\ prev.sp > 0
  /\ Fields = with_capacity

\* C10: no operation other than reset() lowers buffer_position,
\* parsed_position or start_parsing_position.
C10_PositionMonotonicity ==
  op.name # "reset" =>
    /\ buffer_position >= prev.bp
    /\ parsed_position >= prev.pp
    /\ start_parsing_position >= prev.sp

\* a second consume_parsed_data raised positions that were already raised
C10_Witness ==
  /\ op.name = "consume_parsed_data"
  /\ prev.pp > 0
  /\ parsed_position > prev.pp
  /\ start_parsing_position > prev.sp
  /\ buffer_position > 0

\* the i-th element's length in the stream: the count of a Slice, Splice or
\* Delete, the payload length of an Insert
ElemLen(el) == IF el.type = "Insert" THEN Len(el.v) ELSE el.sz

RECURSIVE SumOver(_, _)
\* sum of ElemLen over the elements of q whose type is in the set T
SumOver(q, T) ==
  IF Len(q) = 0 THEN 0
  ELSE SumOver(Take(q, Len(q) - 1), T)
       + (IF q[Len(q)].type \in T THEN ElemLen(q[Len(q)]) ELSE 0)

\* C11: in every reachable state available_input_data() equals
\* input_data_size(), and both equal the sum of the lengths of all input
\* queue elements, Slice and Splice alike.
C11_InputAccounting ==
  /\ available_input_data(input_queue) = input_data_size(input_queue)
  /\ input_data_size(input_queue) = SumOver(input_queue, {"Slice", "Splice"})

\* a Slice, a Splice and a Slice again are queued
C11_Witness ==
  /\ Len(input_queue) = 3
  /\ input_queue[1].type = "Slice"
  /\ input_queue[2].type = "Splice"
  /\ input_queue[3].type = "Slice"
  /\ input_data_size(input_queue) > input_queue[1].sz + input_queue[3].sz

\* q without its i-th element
RemoveAt(q, i) == Take(q, i - 1) \o Drop(q, i)

\* C12: in every reachable state output_data_size() is the sum of the lengths
\* of the Slice and Splice elements plus the payload lengths of the Insert
\* elements of the output queue; delete_output leaves it as it was, and so
\* would the removal of any Delete element of the queue.
C12_OutputExcludesDeletes ==
  /\ output_data_size(output_queue)
       = SumOver(output_queue, {"Slice", "Splice", "Insert"})
  /\ op.name = "delete_output" =>
       output_data_size(output_queue) = output_data_size(prev.oq)
  /\ \A i \in 1..Len(output_queue) :
       output_queue[i].type = "Delete" =>
         output_data_size(RemoveAt(output_queue, i))
           = output_data_size(output_queue)

\* a Delete was appended behind a Slice and an Insert
C12_Witness ==
  /\ op.name = "delete_output"
  /\ Len(output_queue) = 3
  /\ output_queue[1].type = "Slice"
  /\ output_queue[2].type = "Insert"
  /\ output_queue[3] = Delete(op.size)
  /\ output_data_size(output_queue) = output_queue[1].sz + Len(output_queue[2].v)

\* C13: a call consume_output_data(size) with size <= output_data_size()
\* raises buffer_position, and has the Buffer discard, exactly (the bytes
\* drained from Slice elements) + (the lengths of the Delete elements
\* removed); Splice and Insert bytes add nothing.  The Buffer can only
\* discard what it holds.
C13_PhysicalAccounting ==
  (op.name = "consume_output_data" /\ op.size <= output_data_size(prev.oq)) =>
    LET drained == SumOver(prev.oq, {"Slice"}) - SumOver(output_queue, {"Slice"})
        deleted == SumOver(prev.oq, {"Delete"}) - SumOver(output_queue, {"Delete"})
    IN /\ buffer_position - prev.bp = drained + deleted
       /\ Len(prev.buf) - Len(buffer) = Min(drained + deleted, Len(prev.buf))

\* C14: when consume_output_data(k), k > 0, finds Delete(d) at the head of
\* the output queue, it removes the element whole, adds d to buffer_position
\* and has the Buffer discard d bytes, and goes on with the budget still k:
\* the call ends as a call with budget k on the rest of the queue would.  No
\* shortened Delete is ever left, k transmittable bytes are still drained,
\* and buffer_position may advance by more than k.
C14_UnconditionalDelete ==
  (/\ op.name = "consume_output_data"
   /\ op.size > 0
   /\ prev.oq # << >>
   /\ Head(prev.oq).type = "Delete") =>
    LET d == Head(prev.oq).sz
        r == ConsumeOutputLoop(Tail(prev.oq), prev.bp + d,
                               BufferConsume(prev.buf, d), op.size)
    IN /\ output_queue = r.oq
       /\ buffer_position = r.bp
       /\ buffer = r.buf
       /\ panicked = r.panic
       /\ buffer_position >= prev.bp + d
       /\ Len(buffer) <= Max(0, Len(prev.buf) - d)
       /\ Len(output_queue) < Len(prev.oq)
       /\ SumOver(output_queue, {"Delete"}) <= SumOver(prev.oq, {"Delete"}) - d
       /\ panicked = "none" =>
            output_data_size(output_queue) = output_data_size(prev.oq) - op.size

\* Delete(MaxElem) at the head and an Insert behind it: consume_output_data(1)
\* advanced the Buffer by MaxElem > 1 bytes and took one byte of the payload
C14_Witness ==
  /\ op.name = "consume_output_data"
  /\ op.size = 1
  /\ panicked = "none"
  /\ Len(prev.oq) = 2
  /\ prev.oq[1] = Delete(MaxElem)
  /\ prev.oq[2] = Insert(Literal(MaxElem))
  /\ output_queue = << Insert(Drop(Literal(MaxElem), 1)) >>
  /\ buffer_position = prev.bp + MaxElem
  /\ Len(buffer) = Len(prev.buf) - MaxElem

\* C15 (as stated): every consume_parsed_data(size) that returns advances
\* parsed_position by exactly size and start_parsing_position by exactly size.
C15_AdvanceBySize ==
  (op.name = "consume_parsed_data" /\ panicked = "none") =>
    /\ parsed_position = prev.pp + op.size
    /\ start_parsing_position = prev.sp + op.size

\* C15 (amended): every consume_parsed_data(size) that returns advances
\* parsed_position by exactly the number of bytes it retires from the input
\* queue, min(size, input_data_size()), and start_parsing_position by exactly
\* size; the two advances are equal whenever size <= input_data_size().
C15_AdvanceByRetired ==
  (op.name = "consume_parsed_data" /\ panicked = "none") =>
    /\ parsed_position = prev.pp + Min(op.size, input_data_size(prev.iq))
    /\ parsed_position - prev.pp
         = input_data_size(prev.iq) - input_data_size(input_queue)
    /\ start_parsing_position = prev.sp + op.size

\* a second call, which ends inside a Slice behind a Splice: both positions
\* advanced by the size
C15_Witness ==
  /\ op.name = "consume_parsed_data"
  /\ panicked = "none"
  /\ prev.pp > 0
  /\ Len(prev.iq) = 2
  /\ prev.iq[1].type = "Splice"
  /\ prev.iq[2] = Slice(MaxElem)
  /\ input_queue = << Slice(1) >>
  /\ parsed_position = prev.pp + op.size
  /\ start_parsing_position = prev.sp + op.size

\* C16: consume_parsed_data(size) with size > t = input_data_size() returns
\* without failure whatever the mix of Slice and Splice elements, empties
\* the input queue, and advances parsed_position by exactly t and
\* start_parsing_position by size.
C16_InputOverConsumption ==
  (/\ op.name = "consume_parsed_data"
   /\ op.size > input_data_size(prev.iq)) =>
    /\ panicked = "none"
    /\ input_queue = << >>
    /\ parsed_position = prev.pp + input_data_size(prev.iq)
    /\ start_parsing_position = prev.sp + op.size

\* one byte more than a Slice and a Splice hold was consumed
C16_Witness ==
  /\ op.name = "consume_parsed_data"
  /\ Len(prev.iq) = 2
  /\ prev.iq[1].type = "Slice"
  /\ prev.iq[2].type = "Splice"
  /\ op.size = input_data_size(prev.iq) + 1
  /\ input_queue = << >>
  /\ parsed_position = prev.pp + op.size - 1
  /\ start_parsing_position = prev.sp + op.size

\* C17: under a sender that only calls consume_output_data(size) with
\* 0 < size <= output_data_size() and stops when output_data_size() is 0,
\* no Delete is stranded: once a call has consumed the last transmittable
\* byte, the output queue does not have a Delete at its head (the sender
\* makes no further call that could remove it).
C17_NoStrandedDelete ==
  (/\ op.name = "consume_output_data"
   /\ panicked = "none"
   /\ output_data_size(output_queue) = 0) =>
    ~(output_queue # << >> /\ Head(output_queue).type = "Delete")

\* C18: consume_output_data(size) with size > output_data_size() never
\* returns: it drains the whole output queue and stops in the "no more
\* element in queue" assertion; a call with size <= output_data_size()
\* returns without reaching that assertion.
C18_OutputOverConsumption ==
  op.name = "consume_output_data" =>
    IF op.size > output_data_size(prev.oq)
    THEN panicked = "no_more_element" /\ output_queue = << >>
    ELSE panicked = "none"

\* one byte more than an Insert, a Delete and a Splice hold was consumed
C18_Witness ==
  /\ op.name = "consume_output_data"
  /\ panicked = "no_more_element"
  /\ Len(prev.oq) = 3
  /\ prev.oq[1].type = "Insert"
  /\ prev.oq[2].type = "Delete"
  /\ prev.oq[3].type = "Splice"
  /\ op.size = output_data_size(prev.oq) + 1
  /\ output_queue = << >>
  /\ buffer_position = prev.bp + prev.oq[2].sz

\* the largest budget that returns: an Insert and a Slice drained exactly
C18_WitnessReturns ==
  /\ op.name = "consume_output_data"
  /\ panicked = "none"
  /\ Len(prev.oq) = 2
  /\ prev.oq[1].type = "Insert"
  /\ prev.oq[2].type = "Slice"
  /\ op.size = output_data_size(prev.oq)
  /\ output_queue = << >>

\* C19: when the first non-Delete element of the output queue is Insert(v),
\* next_output_data() returns exactly v, whatever Delete elements precede it
\* and whatever follows; when it is a Splice, or the queue is empty or holds
\* only Delete elements, next_output_data() returns an empty slice.  (The
\* query takes &self: it is an operator over the state and changes nothing.)
C19_NonSliceHeads ==
  panicked = "none" =>
    LET rest == AfterDeletes(output_queue) IN
    /\ (rest # << >> /\ Head(rest).type = "Insert") =>
         next_output_data(output_queue, buffer)
           = [ok |-> TRUE, bytes |-> Head(rest).v]
    /\ (rest = << >> \/ Head(rest).type = "Splice") =>
         next_output_data(output_queue, buffer)
           = [ok |-> TRUE, bytes |-> << >>]

\* C20: a write(bytes) of which the Buffer accepts n bytes (n may be smaller
\* than len(bytes)) appends exactly one Slice(n) at the tail of the input
\* queue and raises input_data_size() by n; a write the Buffer rejects
\* appends nothing; in both cases the existing input elements, the output
\* queue and the four positions are unchanged.
C20_WriteContract ==
  /\ op.name = "write" =>
       LET n == Len(buffer) - Len(prev.buf) IN
       /\ 0 <= n /\ n <= op.size
       /\ buffer = prev.buf \o StreamBytes(written - n, n)
       /\ input_queue = Append(prev.iq, Slice(n))
       /\ input_data_size(input_queue) = input_data_size(prev.iq) + n
       /\ [Fields EXCEPT !.buf = prev.buf, !.iq = prev.iq] = prev
  /\ op.name = "write_err" => Fields = prev

\* the Buffer took only the first byte of a write, behind a queued Slice and
\* with output queued and positions advanced
C20_Witness ==
  /\ op.name = "write"
  /\ op.size = MaxElem
  /\ Len(buffer) - Len(prev.buf) = 1
  /\ Len(buffer) = Capacity
  /\ prev.iq # << >>
  /\ prev.oq # << >>
  /\ prev.pp > 0
  /\ input_queue = Append(prev.iq, Slice(1))

\* a write was rejected while both queues were in use
C20_WitnessRejected ==
  /\ op.name = "write_err"
  /\ prev.iq # << >>
  /\ prev.oq # << >>
  /\ Fields = prev
====
